---- MODULE Spec2Model ----
(***************************************************************************)
(* Model of the text::semantic_string module of rust_utils.                *)
(*                                                                         *)
(* A Rust `char` is modelled by its code point, a `&str` by the sequence   *)
(* of its chars; the UTF-8 bytes of a string (what `len()`, slicing and    *)
(* `str::cmp` work on) are computed by encode_utf8 / Bytes.  A u64 is      *)
(* modelled by its canonical decimal digit sequence (most significant      *)
(* digit first, no leading zero), so that values up to and beyond          *)
(* u64::MAX keep their exact magnitude; U64_MAX is the width limit.        *)
(***************************************************************************)
EXTENDS Integers, Sequences, FiniteSets, TLC

\* Longest input string (in chars) of the two-string runs.
MaxLen == 3
\* Longest input string (in chars) of the three-string runs.
MaxLenT == 2
\* Longest vector given to interleave.
MaxVec == 3
\* Most calls of an iterator's next()/next_back() that return None.
MaxNone == 2
\* Most chars in a range given to CharIter.
MaxChars == 3
\* Most items of the iterator given to group_by_key / collect_map_vec_by.
MaxItems == 3
\* Largest of the small millisecond counts given to the Duration constructors.
MaxMs == 20

\* '0', '1', 'a', U+00E9 (two UTF-8 bytes), U+0663 ARABIC-INDIC DIGIT THREE
\* (numeric, not ASCII, two UTF-8 bytes).
Alphabet == {48, 49, 97, 233, 1635}

Strings(n) == UNION {[1..k -> Alphabet] : k \in 0..n}

\* u64::MAX = 18446744073709551615 as a digit sequence.
U64_MAX == <<1, 8, 4, 4, 6, 7, 4, 4, 0, 7, 3, 7, 0, 9, 5, 5, 1, 6, 1, 5>>

AsChars(digits) == [k \in 1..Len(digits) |-> 48 + digits[k]]

\* Digit runs around the 64-bit limit: u64::MAX, u64::MAX + 1, and both
\* followed by one more digit.
LongRuns ==
    LET maxp1 == [U64_MAX EXCEPT ![20] = 6]
    IN  { AsChars(U64_MAX), AsChars(maxp1),
          AsChars(U64_MAX \o <<0>>), AsChars(maxp1 \o <<0>>) }

(***************************************************************************)
(* Standard-library operations the module calls.                           *)
(***************************************************************************)
Less == "Less"
Equal == "Equal"
Greater == "Greater"

\* Ord::cmp on machine integers (usize lengths).
IntCmp(x, y) == IF x < y THEN Less ELSE IF x > y THEN Greater ELSE Equal

\* Lexicographic order of two sequences of integers: <[u8] as Ord>::cmp,
\* which is what str::cmp is.
RECURSIVE SeqCmp(_, _)
SeqCmp(x, y) ==
    IF x = <<>> THEN (IF y = <<>> THEN Equal ELSE Less)
    ELSE IF y = <<>> THEN Greater
    ELSE IF Head(x) < Head(y) THEN Less
    ELSE IF Head(x) > Head(y) THEN Greater
    ELSE SeqCmp(Tail(x), Tail(y))

RECURSIVE StripZeros(_)
StripZeros(d) == IF Len(d) > 1 /\ Head(d) = 0 THEN StripZeros(Tail(d)) ELSE d

\* u64::cmp on canonical digit sequences: more digits is larger, equally
\* many digits compare digit by digit.
NatCmp(x, y) == IF Len(x) # Len(y) THEN IntCmp(Len(x), Len(y)) ELSE SeqCmp(x, y)

\* char::len_utf8 / char::encode_utf8
encode_utf8(c) ==
    IF c < 128 THEN <<c>>
    ELSE IF c < 2048 THEN <<192 + (c \div 64), 128 + (c % 64)>>
    ELSE IF c < 65536
         THEN <<224 + (c \div 4096), 128 + ((c \div 64) % 64), 128 + (c % 64)>>
    ELSE <<240 + (c \div 262144), 128 + ((c \div 4096) % 64),
           128 + ((c \div 64) % 64), 128 + (c % 64)>>

len_utf8(c) == Len(encode_utf8(c))

\* The UTF-8 bytes of a string.
RECURSIVE Bytes(_)
Bytes(s) == IF s = <<>> THEN <<>> ELSE encode_utf8(Head(s)) \o Bytes(Tail(s))

\* char::is_numeric: the ASCII digits, and beyond ASCII the Unicode
\* categories Nd/Nl/No, of which the Arabic-Indic digits U+0660..U+0669
\* are the part within the alphabet's range.
is_numeric(c) == c \in 48..57 \/ c \in 1632..1641

\* AsciiExt::is_ascii
is_ascii(c) == c <= 127

\* str::char_indices: each char with the byte offset it starts at.
RECURSIVE char_indices_from(_, _)
char_indices_from(s, off) ==
    IF s = <<>> THEN <<>>
    ELSE <<[i |-> off, c |-> Head(s)]>>
         \o char_indices_from(Tail(s), off + len_utf8(Head(s)))

char_indices(s) == char_indices_from(s, 0)

\* str::is_char_boundary on the bytes: offset 0, the end, or a byte that is
\* not a UTF-8 continuation byte (0x80..0xBF).
is_char_boundary(bytes, idx) ==
    \/ idx = 0
    \/ idx = Len(bytes)
    \/ idx < Len(bytes) /\ bytes[idx + 1] \notin 128..191

\* &raw[first..last]: panics unless first <= last <= len and both are char
\* boundaries.
str_slice(bytes, first, last) ==
    IF /\ first <= last
       /\ last <= Len(bytes)
       /\ is_char_boundary(bytes, first)
       /\ is_char_boundary(bytes, last)
    THEN [ok |-> TRUE, val |-> SubSeq(bytes, first + 1, last)]
    ELSE [ok |-> FALSE, val |-> <<>>]

\* str::parse::<u64>: Err on an empty string, on a byte that is not an ASCII
\* digit, and when the value does not fit in 64 bits; leading zeros are
\* accepted.
parse_u64(bytes) ==
    IF bytes = <<>> \/ \E k \in 1..Len(bytes) : bytes[k] \notin 48..57
    THEN [ok |-> FALSE, val |-> <<>>]
    ELSE LET v == StripZeros([k \in 1..Len(bytes) |-> bytes[k] - 48])
         IN  IF NatCmp(v, U64_MAX) = Greater
             THEN [ok |-> FALSE, val |-> <<>>]
             ELSE [ok |-> TRUE, val |-> v]

(***************************************************************************)
(* enum StringPart and its order.                                          *)
(***************************************************************************)
Text(bytes) == [tag |-> "Text", val |-> bytes]
Number(n) == [tag |-> "Number", val |-> n]

\* A token order with the cross-variant tie-break the other way round.
StringPart_cmp_NumberFirst(a, b) ==
    IF a.tag = "Text" /\ b.tag = "Text" THEN SeqCmp(a.val, b.val)
    ELSE IF a.tag = "Number" /\ b.tag = "Number" THEN NatCmp(a.val, b.val)
    ELSE IF a.tag = "Text" /\ b.tag = "Number" THEN Greater
    ELSE Less

StringPart_cmp(a, b) ==
    IF a.tag = "Text" /\ b.tag = "Text" THEN SeqCmp(a.val, b.val)
    ELSE IF a.tag = "Number" /\ b.tag = "Number" THEN NatCmp(a.val, b.val)
    ELSE IF a.tag = "Text" /\ b.tag = "Number" THEN Less
    ELSE Greater

(***************************************************************************)
(* SemanticString::new                                                     *)
(***************************************************************************)
\* A classification that forgets the ASCII test.
GroupKey_NumericOnly(item) == is_numeric(item.c)

\* The closure given to group_by.
GroupKey(item) == is_numeric(item.c) /\ is_ascii(item.c)

\* Itertools::group_by: consecutive items with the same key form one group.
RECURSIVE group_by(_)
group_by(items) ==
    IF items = <<>> THEN <<>>
    ELSE LET rest == group_by(Tail(items))
             k == GroupKey(Head(items))
         IN  IF rest # <<>> /\ rest[1].key = k
             THEN <<[key |-> k, group |-> <<Head(items)>> \o rest[1].group]>>
                  \o Tail(rest)
             ELSE <<[key |-> k, group |-> <<Head(items)>>]>> \o rest

\* group.next() takes the first item of the group.
first_index(g) == g.group[1].i

\* group.last() on what is left of the group: the byte offset at which the
\* last remaining char starts, or first_index + 1 when nothing is left.
last_index(g) ==
    LET rest == Tail(g.group)
    IN  IF rest # <<>> THEN rest[Len(rest)].i ELSE first_index(g) + 1

\* The body of the loop for one group: slice, then parse a numeric group.
\* panic names the panic that ends the constructor, "" when there is none.
MakePart(raw, g) ==
    LET fi == first_index(g)
        li == last_index(g)
        part == str_slice(raw, fi, li)
        num == parse_u64(part.val)
    IN  IF ~part.ok
        THEN [panic |-> "slice", span |-> <<fi, li>>, part |-> Text(<<>>)]
        ELSE IF g.key
        THEN IF num.ok
             THEN [panic |-> "", span |-> <<fi, li>>, part |-> Number(num.val)]
             ELSE [panic |-> "expect", span |-> <<fi, li>>, part |-> Text(<<>>)]
        ELSE [panic |-> "", span |-> <<fi, li>>, part |-> Text(part.val)]

\* The first panic of a sequence of loop iterations, "" when none panics.
RECURSIVE FirstPanic(_)
FirstPanic(made) ==
    IF made = <<>> THEN ""
    ELSE IF Head(made).panic # "" THEN Head(made).panic
    ELSE FirstPanic(Tail(made))

\* A constructor that stores the text of the parts it sliced as raw.
SemanticString_new_RawFromParts(s) ==
    LET raw == Bytes(s)
        groups == group_by(char_indices(s))
        made == [k \in 1..Len(groups) |-> MakePart(raw, groups[k])]
        kept == UNION {made[k].span[1] + 1 .. made[k].span[2] : k \in 1..Len(made)}
        IsKept(b) == b \in kept
        marked == [b \in 1..Len(raw) |-> b]
    IN  [panic |-> FirstPanic(made),
         spans |-> [k \in 1..Len(made) |-> made[k].span],
         value |-> [raw |-> [b \in 1..Len(SelectSeq(marked, IsKept)) |->
                               raw[SelectSeq(marked, IsKept)[b]]],
                    parts |-> [k \in 1..Len(made) |-> made[k].part]]]

SemanticString_new(s) ==
    LET raw == Bytes(s)
        groups == group_by(char_indices(s))
        made == [k \in 1..Len(groups) |-> MakePart(raw, groups[k])]
    IN  [panic |-> FirstPanic(made),
         spans |-> [k \in 1..Len(made) |-> made[k].span],
         value |-> [raw |-> raw, parts |-> [k \in 1..Len(made) |-> made[k].part]]]

(***************************************************************************)
(* impl Ord for SemanticString                                             *)
(***************************************************************************)
\* The for loop over self.parts.iter().zip(other.parts.iter()).
RECURSIVE ZipWalk(_, _)
ZipWalk(pa, pb) ==
    IF pa = <<>> \/ pb = <<>> THEN Equal
    ELSE IF StringPart_cmp(Head(pa), Head(pb)) # Equal
         THEN StringPart_cmp(Head(pa), Head(pb))
    ELSE ZipWalk(Tail(pa), Tail(pb))

\* A comparison that skips the length test.
SemanticString_cmp_NoLength(a, b) == ZipWalk(a.parts, b.parts)

\* A comparison that orders the token vectors as Vec::cmp does: when one
\* runs out first, the shorter vector is Less.
SemanticString_cmp_VecOrder(a, b) ==
    IF IntCmp(Len(a.raw), Len(b.raw)) = Equal
    THEN IF ZipWalk(a.parts, b.parts) # Equal
         THEN ZipWalk(a.parts, b.parts)
         ELSE IntCmp(Len(a.parts), Len(b.parts))
    ELSE IntCmp(Len(a.raw), Len(b.raw))

SemanticString_cmp(a, b) ==
    IF IntCmp(Len(a.raw), Len(b.raw)) = Equal
    THEN ZipWalk(a.parts, b.parts)
    ELSE IntCmp(Len(a.raw), Len(b.raw))

(***************************************************************************)
(* slice::sort on a short slice (insertion sort from the right, stable),   *)
(* with is_less(x, y) == x.cmp(y) == Less.                                 *)
(***************************************************************************)
\* insert_head: v[2..] is sorted; move v[1] right past every element that is
\* less than it.
RECURSIVE insert_head(_)
insert_head(v) ==
    IF Len(v) >= 2 /\ SemanticString_cmp(v[2], v[1]) = Less
    THEN <<v[2]>> \o insert_head(<<v[1]>> \o SubSeq(v, 3, Len(v)))
    ELSE v

RECURSIVE sort(_)
sort(v) == IF Len(v) < 2 THEN v ELSE insert_head(<<Head(v)>> \o sort(Tail(v)))

(***************************************************************************)
(* The program: a list of strings is parsed element by element             *)
(* (strings.iter().map(SemanticString::new).collect()), the parsed values  *)
(* are compared pairwise, then sorted, and the raw strings read back.      *)
(***************************************************************************)
VARIABLES
    strings,      \* the input strings
    sem_strings,  \* the parsed values collected so far; sorted by Sort
    spans,        \* spans[i]: the byte ranges new sliced out of strings[i]
    ord,          \* ord[i][j]: sem_strings[i].cmp(sem_strings[j]), once compared
    orig,         \* the raw strings in sorted order, once sorted
    panic,        \* the panic that ended the run, "" when there is none
    pc            \* "new", "cmp", "sort", "done" or "panicked"

\* iter::interleave
VARIABLES
    il_in,        \* the vectors a and b interleave was called with
    il,           \* the InterleaveIters value: iter_a, iter_b, state
    il_rets       \* what each call of next() returned, in order

\* text::char_iter
VARIABLES
    ci_in,        \* the range CharIter::new is called with
    ci,           \* the CharIter value: start, end
    ci_log,       \* the calls that returned, in order: op and value returned
    ci_pc         \* "new", "iter" or "panicked"

\* iter::group_by_key and iter::collect_map_vec
VARIABLES
    gb_in,        \* the items xs of the iterator and the key function f
    gb,           \* group_by_key: items consumed (pos) and its map
    cm            \* collect_map_vec_by: items consumed (pos) and its map

\* time::timespan
VARIABLES
    ts_in,        \* the number of milliseconds given
    ts_total,     \* what from_total_milliseconds returned, once called
    ts_from       \* what from_milliseconds returned, once called

semVars == <<strings, sem_strings, spans, ord, orig, panic, pc>>

ilVars == <<il_in, il, il_rets>>

ciVars == <<ci_in, ci, ci_log, ci_pc>>

gbVars == <<gb_in, gb, cm>>

tsVars == <<ts_in, ts_total, ts_from>>

vars == <<semVars, ilVars, ciVars, gbVars, tsVars>>

\* No string is being parsed.
SemIdle ==
    /\ strings = <<>>
    /\ sem_strings = <<>>
    /\ spans = <<>>
    /\ ord = <<>>
    /\ orig = <<>>
    /\ panic = ""
    /\ pc = "idle"

\* No InterleaveIters exists.
IlIdle ==
    /\ il_in = [a |-> <<>>, b |-> <<>>]
    /\ il = [iter_a |-> <<>>, iter_b |-> <<>>, state |-> "Finished"]
    /\ il_rets = <<>>

\* No CharIter exists.
CiIdle ==
    /\ ci_in = [a |-> 0, b |-> 0, inclusive |-> TRUE]
    /\ ci = [start |-> 0, end |-> 0]
    /\ ci_log = <<>>
    /\ ci_pc = "idle"

\* No grouping is running.
GbIdle ==
    /\ gb_in = [xs |-> <<>>, f |-> <<>>]
    /\ gb = [pos |-> 0, map |-> <<>>]
    /\ cm = [pos |-> 0, map |-> <<>>]

\* No Duration is being constructed.
TsIdle ==
    /\ ts_in = [kind |-> "none", m |-> 0]
    /\ ts_total = [tag |-> "none", dur |-> [secs |-> 0, nanos |-> 0]]
    /\ ts_from = [tag |-> "none", dur |-> [secs |-> 0, nanos |-> 0]]

\* The variables the string runs leave alone.
semOthers == <<ilVars, ciVars, gbVars, tsVars>>

InitWith(n, inputs) ==
    /\ strings \in [1..n -> inputs]
    /\ sem_strings = <<>>
    /\ spans = <<>>
    /\ ord = <<>>
    /\ orig = <<>>
    /\ panic = ""
    /\ pc = "new"
    /\ IlIdle
    /\ CiIdle
    /\ GbIdle
    /\ TsIdle

Init == InitWith(2, Strings(MaxLen) \cup LongRuns)

InitT == InitWith(3, Strings(MaxLenT))

\* SemanticString::new returns for the next string.
NewOk ==
    /\ pc = "new"
    /\ Len(sem_strings) < Len(strings)
    /\ LET r == SemanticString_new(strings[Len(sem_strings) + 1])
       IN  /\ r.panic = ""
           /\ sem_strings' = Append(sem_strings, r.value)
           /\ spans' = Append(spans, r.spans)
    /\ pc' = IF Len(sem_strings) + 1 = Len(strings) THEN "cmp" ELSE "new"
    /\ UNCHANGED <<strings, ord, orig, panic, semOthers>>

\* SemanticString::new panics on the next string: the run is over.
NewPanic ==
    /\ pc = "new"
    /\ Len(sem_strings) < Len(strings)
    /\ LET r == SemanticString_new(strings[Len(sem_strings) + 1])
       IN  /\ r.panic # ""
           /\ panic' = r.panic
    /\ pc' = "panicked"
    /\ UNCHANGED <<strings, sem_strings, spans, ord, orig, semOthers>>

\* Every parsed value is compared with every parsed value.
Compare ==
    /\ pc = "cmp"
    /\ ord' = [i \in 1..Len(sem_strings) |->
                 [j \in 1..Len(sem_strings) |->
                     SemanticString_cmp(sem_strings[i], sem_strings[j])]]
    /\ pc' = "sort"
    /\ UNCHANGED <<strings, sem_strings, spans, orig, panic, semOthers>>

\* sem_strings.sort(), then the raw strings are read back in order.
Sort ==
    /\ pc = "sort"
    /\ sem_strings' = sort(sem_strings)
    /\ orig' = [k \in 1..Len(sem_strings) |-> sort(sem_strings)[k].raw]
    /\ pc' = "done"
    /\ UNCHANGED <<strings, spans, ord, panic, semOthers>>

Next == NewOk \/ NewPanic \/ Compare \/ Sort

Spec == Init /\ [][Next]_vars

SpecT == InitT /\ [][Next]_vars

(***************************************************************************)
(* iter::interleave: InterleaveIters over two vec::IntoIter.               *)
(***************************************************************************)
\* Option<V>
None == <<>>
Some(v) == <<v>>

IlValues == {1, 2}

Vecs(n) == UNION {[1..k -> IlValues] : k \in 0..n}

\* vec::IntoIter::next on what is left of a vector.
vec_next(iter) ==
    IF iter = <<>> THEN [iter |-> <<>>, ret |-> None]
    ELSE [iter |-> Tail(iter), ret |-> Some(Head(iter))]

\* Interleave::interleave
interleave(a, b) == [iter_a |-> a, iter_b |-> b, state |-> "A"]

\* A next() that turns to the other iterator when the one whose turn it is
\* has run out.
InterleaveIters_next_Chained(s) ==
    LET na == vec_next(s.iter_a)
        nb == vec_next(s.iter_b)
        fromA == [self |-> [iter_a |-> na.iter, iter_b |-> s.iter_b, state |-> "B"],
                  ret |-> na.ret]
        fromB == [self |-> [iter_a |-> s.iter_a, iter_b |-> nb.iter, state |-> "A"],
                  ret |-> nb.ret]
    IN  IF s.state = "A" THEN (IF na.ret = None THEN fromB ELSE fromA)
        ELSE IF s.state = "B" THEN (IF nb.ret = None THEN fromA ELSE fromB)
        ELSE [self |-> s, ret |-> None]

\* A next() that never enters Finished: it keeps taking turns.
InterleaveIters_next_Unfused(s) ==
    IF s.state = "A"
    THEN LET n == vec_next(s.iter_a)
         IN  [self |-> [iter_a |-> n.iter, iter_b |-> s.iter_b, state |-> "B"],
              ret |-> n.ret]
    ELSE LET n == vec_next(s.iter_b)
         IN  [self |-> [iter_a |-> s.iter_a, iter_b |-> n.iter, state |-> "A"],
              ret |-> n.ret]

\* InterleaveIters::next: the new value of self and the value returned.
InterleaveIters_next(s) ==
    IF s.state = "A"
    THEN LET n == vec_next(s.iter_a)
         IN  [self |-> [iter_a |-> n.iter, iter_b |-> s.iter_b,
                        state |-> IF n.ret = None THEN "Finished" ELSE "B"],
              ret |-> n.ret]
    ELSE IF s.state = "B"
    THEN LET n == vec_next(s.iter_b)
         IN  [self |-> [iter_a |-> s.iter_a, iter_b |-> n.iter,
                        state |-> IF n.ret = None THEN "Finished" ELSE "A"],
              ret |-> n.ret]
    ELSE [self |-> s, ret |-> None]

\* The calls so far that returned None.
NoneCount(rets) == Cardinality({k \in 1..Len(rets) : rets[k] = None})

InitIl ==
    /\ il_in \in [a : Vecs(MaxVec), b : Vecs(MaxVec)]
    /\ il = interleave(il_in.a, il_in.b)
    /\ il_rets = <<>>
    /\ SemIdle
    /\ CiIdle
    /\ GbIdle
    /\ TsIdle

\* The caller calls next(), also after it has returned None.
InterleaveNext ==
    /\ NoneCount(il_rets) < MaxNone
    /\ il' = InterleaveIters_next(il).self
    /\ il_rets' = Append(il_rets, InterleaveIters_next(il).ret)
    /\ UNCHANGED <<il_in, semVars, ciVars, gbVars, tsVars>>

NextIl == InterleaveNext

SpecIl == InitIl /\ [][NextIl]_vars

(***************************************************************************)
(* text::char_iter: CharIter.  start and end are u32 code points.          *)
(***************************************************************************)
\* char::try_from(u32).ok(): every value up to char::MAX = 0x10FFFF that is
\* not a surrogate (0xD800..0xDFFF).
is_char(c) == c \in 0..55295 \/ c \in 57344..1114111

\* CharIter::prev_char: the first valid char found scanning down from
\* c - 1; the scan of 0..0 is empty and the unwrap panics.
prev_char(c) ==
    IF c = 0 THEN [ok |-> FALSE, val |-> 0]
    ELSE IF is_char(c - 1) THEN [ok |-> TRUE, val |-> c - 1]
    ELSE [ok |-> TRUE, val |-> 55295]

\* CharIter::next_char: the first valid char found scanning up from c + 1.
\* Above char::MAX no u32 is a char: the scan runs to u32::MAX, where the
\* range's increment overflows; a build with overflow checks panics, one
\* without wraps to 0 and the scan returns '\0'.
next_char(c) ==
    IF c + 1 > 1114111 THEN {[ok |-> FALSE, val |-> 0], [ok |-> TRUE, val |-> 0]}
    ELSE IF is_char(c + 1) THEN {[ok |-> TRUE, val |-> c + 1]}
    ELSE {[ok |-> TRUE, val |-> 57344]}

\* CharIter::new for a..=b (inclusive) and a..b.
CharIter_new(r) ==
    IF r.inclusive THEN [ok |-> TRUE, val |-> [start |-> r.a, end |-> r.b]]
    ELSE [ok |-> prev_char(r.b).ok,
          val |-> [start |-> r.a, end |-> prev_char(r.b).val]]

\* Chars at the ends of the char space, around the surrogate gap and among
\* the ASCII letters.
CharSamples ==
    {0, 1, 2, 65, 66, 67, 55294, 55295, 57344, 57345, 1114110, 1114111}

\* How many chars a..=b holds.
RangeSize(a, b) ==
    IF a > b THEN 0
    ELSE IF a < 55296 /\ b > 57343 THEN b - a + 1 - 2048
    ELSE b - a + 1

InitCi ==
    /\ ci_in \in {r \in [a : CharSamples, b : CharSamples, inclusive : BOOLEAN] :
                     r.a <= r.b /\ RangeSize(r.a, r.b) <= MaxChars}
    /\ ci = [start |-> 0, end |-> 0]
    /\ ci_log = <<>>
    /\ ci_pc = "new"
    /\ SemIdle
    /\ IlIdle
    /\ GbIdle
    /\ TsIdle

\* The calls that still fit the bounds: MaxNone Nones, and as many values as
\* the range holds and one more.
CiMayCall ==
    /\ ci_pc = "iter"
    /\ Cardinality({k \in 1..Len(ci_log) : ci_log[k].ret = None}) < MaxNone
    /\ Cardinality({k \in 1..Len(ci_log) : ci_log[k].ret # None}) <= MaxChars

\* CharIter::new(range)
CharIterNew ==
    /\ ci_pc = "new"
    /\ ci' = CharIter_new(ci_in).val
    /\ ci_pc' = IF CharIter_new(ci_in).ok THEN "iter" ELSE "panicked"
    /\ UNCHANGED <<ci_in, ci_log, semVars, ilVars, gbVars, tsVars>>

\* Iterator::next
CharIterNext ==
    /\ CiMayCall
    /\ IF ci.start > ci.end
       THEN /\ ci_log' = Append(ci_log, [op |-> "next", ret |-> None])
            /\ UNCHANGED <<ci, ci_pc>>
       ELSE \E n \in next_char(ci.start) :
               IF n.ok
               THEN /\ ci' = [ci EXCEPT !.start = n.val]
                    /\ ci_log' = Append(ci_log, [op |-> "next", ret |-> Some(ci.start)])
                    /\ UNCHANGED ci_pc
               ELSE /\ ci_pc' = "panicked"
                    /\ UNCHANGED <<ci, ci_log>>
    /\ UNCHANGED <<ci_in, semVars, ilVars, gbVars, tsVars>>

\* DoubleEndedIterator::next_back
CharIterNextBack ==
    /\ CiMayCall
    /\ IF ci.end < ci.start
       THEN /\ ci_log' = Append(ci_log, [op |-> "next_back", ret |-> None])
            /\ UNCHANGED <<ci, ci_pc>>
       ELSE IF prev_char(ci.end).ok
       THEN /\ ci' = [ci EXCEPT !.end = prev_char(ci.end).val]
            /\ ci_log' = Append(ci_log, [op |-> "next_back", ret |-> Some(ci.end)])
            /\ UNCHANGED ci_pc
       ELSE /\ ci_pc' = "panicked"
            /\ UNCHANGED <<ci, ci_log>>
    /\ UNCHANGED <<ci_in, semVars, ilVars, gbVars, tsVars>>

NextCi == CharIterNew \/ CharIterNext \/ CharIterNextBack

SpecCi == InitCi /\ [][NextCi]_vars

(***************************************************************************)
(* iter::group_by_key and iter::collect_map_vec.  A HashMap<K, Vec<V>> is  *)
(* a function from the keys it holds to sequences.                         *)
(***************************************************************************)
GbValues == {1, 2, 3}
GbKeys == {0, 1}

\* HashMap::insert(key, vec)
map_insert(map, key, vec) ==
    [k \in DOMAIN map \cup {key} |-> IF k = key THEN vec ELSE map[k]]

\* A loop body that inserts a fresh vector also for a key the map holds.
group_by_key_body_Overwrite(map, f, val) == map_insert(map, f[val], <<val>>)

\* The body of group_by_key's loop for one item.
group_by_key_body(map, f, val) ==
    LET key == f[val]
        has_val == key \in DOMAIN map
    IN  IF has_val
        THEN [map EXCEPT ![key] = Append(@, val)]
        ELSE map_insert(map, key, <<val>>)

\* The body of collect_map_vec's loop for one (key, val) pair:
\* map.entry(key).or_insert(vec![]).push(val)
collect_map_vec_body(map, key, val) ==
    LET with_entry == IF key \in DOMAIN map THEN map ELSE map_insert(map, key, <<>>)
    IN  [with_entry EXCEPT ![key] = Append(@, val)]

\* The pair collect_map_vec_by's map adaptor makes of an item.
collect_map_vec_by_pair(f, v) == <<f[v], v>>

InitGb ==
    /\ gb_in \in [xs : UNION {[1..k -> GbValues] : k \in 0..MaxItems},
                  f : [GbValues -> GbKeys]]
    /\ gb = [pos |-> 0, map |-> <<>>]
    /\ cm = [pos |-> 0, map |-> <<>>]
    /\ SemIdle
    /\ IlIdle
    /\ CiIdle
    /\ TsIdle

\* group_by_key takes the next item.
GroupByKeyStep ==
    /\ gb.pos < Len(gb_in.xs)
    /\ gb' = [pos |-> gb.pos + 1,
              map |-> group_by_key_body(gb.map, gb_in.f, gb_in.xs[gb.pos + 1])]
    /\ UNCHANGED <<gb_in, cm, semVars, ilVars, ciVars, tsVars>>

\* collect_map_vec_by takes the next item.
CollectMapVecStep ==
    /\ cm.pos < Len(gb_in.xs)
    /\ LET pair == collect_map_vec_by_pair(gb_in.f, gb_in.xs[cm.pos + 1])
       IN  cm' = [pos |-> cm.pos + 1,
                  map |-> collect_map_vec_body(cm.map, pair[1], pair[2])]
    /\ UNCHANGED <<gb_in, gb, semVars, ilVars, ciVars, tsVars>>

NextGb == GroupByKeyStep \/ CollectMapVecStep

SpecGb == InitGb /\ [][NextGb]_vars

(***************************************************************************)
(* time::timespan: Duration::from_total_milliseconds and                   *)
(* Duration::from_milliseconds.  An f64 argument is a whole number m >= 0  *)
(* or one of the values input_check! rejects.  A count of nanoseconds n    *)
(* that may exceed 32 bits is held as the pair                             *)
(* <<n \div 1000000, n % 1000000>>.                                         *)
(***************************************************************************)
NANOS_PER_MILLISECOND_F == 1000000
NANOS_PER_MILLISECOND == 1000000

\* u32::MAX = 4294967295 and 2^32 as pairs.
U32_MAX == <<4294, 967295>>
TwoTo32 == <<4294, 967296>>

PairLeq(x, y) == x[1] < y[1] \/ (x[1] = y[1] /\ x[2] <= y[2])

\* x - y for pairs with y <= x.
PairSub(x, y) ==
    IF x[2] >= y[2] THEN <<x[1] - y[1], x[2] - y[2]>>
    ELSE <<x[1] - y[1] - 1, x[2] + NANOS_PER_MILLISECOND_F - y[2]>>

RECURSIVE PairMod2To32(_)
PairMod2To32(x) == IF PairLeq(x, U32_MAX) THEN x ELSE PairMod2To32(PairSub(x, TwoTo32))

\* `f as u32` for a whole f64 f >= 0: the value when it fits; otherwise the
\* cast is out of range, which is undefined behaviour in the compilers the
\* crate's feature gates belong to and saturates in later ones: the result
\* is u32::MAX, the value modulo 2^32, or 0.
f64_as_u32(x) ==
    IF PairLeq(x, U32_MAX) THEN {x}
    ELSE {U32_MAX, PairMod2To32(x), <<0, 0>>}

\* Duration::new(secs, nanos): whole seconds in nanos are carried to secs.
Duration_new(secs, nanos) ==
    [secs |-> secs + (nanos[1] \div 1000),
     nanos |-> (nanos[1] % 1000) * NANOS_PER_MILLISECOND_F + nanos[2]]

\* input_check!: negative, NaN and infinite arguments are refused.
input_check(x) == x.kind = "whole"

\* Duration::from_total_milliseconds: the results it can return.
from_total_milliseconds(x) ==
    IF ~input_check(x)
    THEN {[tag |-> "Err", dur |-> [secs |-> 0, nanos |-> 0]]}
    ELSE {[tag |-> "Ok", dur |-> Duration_new(0, n)] : n \in f64_as_u32(<<x.m, 0>>)}

\* Duration::from_milliseconds
from_milliseconds(m) ==
    LET secs == m \div 1000
        nanos == (m % 1000) * NANOS_PER_MILLISECOND
    IN  [tag |-> "Ok", dur |-> Duration_new(secs, <<0, nanos>>)]

\* Whole millisecond counts: small ones, those around one second and those
\* around u32::MAX nanoseconds.
TsWhole == (0..MaxMs) \cup (995..1005) \cup (4290..4300)

InitTs ==
    /\ ts_in \in [kind : {"whole"}, m : TsWhole]
                 \cup [kind : {"negative", "nan", "infinite"}, m : {0}]
    /\ ts_total = [tag |-> "none", dur |-> [secs |-> 0, nanos |-> 0]]
    /\ ts_from = [tag |-> "none", dur |-> [secs |-> 0, nanos |-> 0]]
    /\ SemIdle
    /\ IlIdle
    /\ CiIdle
    /\ GbIdle

\* Duration::from_total_milliseconds(m as f64)
FromTotalMilliseconds ==
    /\ ts_in.kind # "none"
    /\ ts_total.tag = "none"
    /\ ts_total' \in from_total_milliseconds(ts_in)
    /\ UNCHANGED <<ts_in, ts_from, semVars, ilVars, ciVars, gbVars>>

\* Duration::from_milliseconds(m)
FromMilliseconds ==
    /\ ts_in.kind = "whole"
    /\ ts_from.tag = "none"
    /\ ts_from' = from_milliseconds(ts_in.m)
    /\ UNCHANGED <<ts_in, ts_total, semVars, ilVars, ciVars, gbVars>>

NextTs == FromTotalMilliseconds \/ FromMilliseconds

SpecTs == InitTs /\ [][NextTs]_vars

(***************************************************************************)
(* Notions the properties are stated with, defined on the input string     *)
(* itself, independently of SemanticString::new.                           *)
(***************************************************************************)
IsAsciiDigit(c) == c \in 48..57

\* The positions at which a maximal run of ASCII digits of s starts.
DigitRunStarts(s) ==
    {k \in 1..Len(s) : IsAsciiDigit(s[k]) /\ (k = 1 \/ ~IsAsciiDigit(s[k - 1]))}

\* The position at which the maximal digit run starting at k ends.
DigitRunEnd(s, k) ==
    CHOOSE e \in k..Len(s) :
        /\ \A m \in k..e : IsAsciiDigit(s[m])
        /\ e = Len(s) \/ ~IsAsciiDigit(s[e + 1])

\* The decimal value of the whole digit run starting at k.
DigitRunValue(s, k) ==
    StripZeros([m \in 1..(DigitRunEnd(s, k) - k + 1) |-> s[k + m - 1] - 48])

FitsU64(v) == NatCmp(v, U64_MAX) # Greater

HasOverflowRun(s) == \E k \in DigitRunStarts(s) : ~FitsU64(DigitRunValue(s, k))

IsNumberPart(p) == p.tag = "Number"

\* The bytes of raw covered by a list of spans, in order.
RECURSIVE SpanConcat(_, _)
SpanConcat(raw, sp) ==
    IF sp = <<>> THEN <<>>
    ELSE SubSeq(raw, Head(sp)[1] + 1, Head(sp)[2]) \o SpanConcat(raw, Tail(sp))

\* new was applied to strings[i] and returned a value.
Constructed(i) == i <= Len(spans)

\* new was applied to strings[i] and panicked.
PanickedOn(i) == pc = "panicked" /\ i = Len(spans) + 1

\* The token-level order at the first position where two token sequences
\* differ, Equal when no common position differs.
FirstDifference(pa, pb) ==
    LET n == IF Len(pa) < Len(pb) THEN Len(pa) ELSE Len(pb)
        D == {k \in 1..n : StringPart_cmp(pa[k], pb[k]) # Equal}
    IN  IF D = {} THEN Equal
        ELSE LET m == CHOOSE m \in D : \A x \in D : m <= x
             IN  StringPart_cmp(pa[m], pb[m])

DigitsOnlyNoLeadingZero(s) ==
    /\ s # <<>>
    /\ \A k \in 1..Len(s) : IsAsciiDigit(s[k])
    /\ Len(s) = 1 \/ s[1] # 48

NoAsciiDigit(s) == \A k \in 1..Len(s) : ~IsAsciiDigit(s[k])

ByteLen(s) == Len(Bytes(s))

(***************************************************************************)
(* Properties                                                              *)
(***************************************************************************)

\* C1 - Partition property: the spans new slices out of a string, taken in
\* order, concatenate to exactly that string; no character is dropped,
\* duplicated or reordered.
C1_Partition ==
    \A i \in 1..Len(spans) :
        SpanConcat(Bytes(strings[i]), spans[i]) = Bytes(strings[i])

\* C2 - Every maximal run of ASCII digits becomes a Number token whose value
\* is the decimal value of the entire run, whenever that value fits in a
\* u64: the k-th digit run of the string gives the k-th Number token.
C2_NumberIsWholeRun ==
    pc # "done" =>
        \A i \in 1..Len(sem_strings) :
            LET s == strings[i]
                nums == SelectSeq(sem_strings[i].parts, IsNumberPart)
            IN  \A k \in DigitRunStarts(s) :
                    LET rank == Cardinality({j \in DigitRunStarts(s) : j <= k})
                    IN  FitsU64(DigitRunValue(s, k)) =>
                            /\ rank <= Len(nums)
                            /\ nums[rank].val = DigitRunValue(s, k)

\* C3 - A digit run whose value exceeds u64::MAX makes the constructor
\* return a recoverable failure: it neither panics nor returns a value
\* (whose Number could only be wrapped, saturated or truncated).
C3_OverflowIsRecoverable ==
    \A i \in 1..Len(strings) :
        HasOverflowRun(strings[i]) => ~Constructed(i) /\ ~PanickedOn(i)

\* C4 - new never panics on a string in which no digit run overflows a u64,
\* whatever else the string holds (nothing, no digits, no text, multi-byte
\* characters, non-ASCII numerals).
C4_NewSucceeds ==
    \A i \in 1..Len(strings) : PanickedOn(i) => HasOverflowRun(strings[i])

\* C5 - Transitivity: if a.cmp(b) is not Greater and b.cmp(c) is not Greater
\* then a.cmp(c) is not Greater.
C5_Transitive ==
    \A i, j, k \in 1..Len(ord) :
        ord[i][j] # Greater /\ ord[j][k] # Greater => ord[i][k] # Greater

\* C6 - Antisymmetry with respect to equality: two parsed strings compare
\* Equal only if their raw strings are equal.
C6_EqualOnlyIfSameRaw ==
    \A i, j \in 1..Len(ord) : ord[i][j] = Equal => strings[i] = strings[j]

\* C7 - Length-first rule: of two strings of different byte length the
\* shorter compares Less and the longer Greater, whatever their tokens are,
\* so sorting puts shorter strings before longer ones.
C7_LengthFirst ==
    /\ \A i, j \in 1..Len(ord) :
           ByteLen(strings[i]) < ByteLen(strings[j]) =>
               ord[i][j] = Less /\ ord[j][i] = Greater
    /\ \A k, l \in 1..Len(orig) : k < l => Len(orig[k]) <= Len(orig[l])

\* C7 witness: "0a" and "1" are sorted; the first tokens alone (0 before 1)
\* would put "0a" first, the lengths put "1" first.
C7_Witness ==
    /\ pc = "done"
    /\ strings = <<(<<48, 97>>), (<<49>>)>>
    /\ ord[1][2] = Greater
    /\ orig = <<(<<49>>), (<<48, 97>>)>>

\* C8 - Equal-length rule: for two parsed strings of equal byte length, cmp
\* is the token-level order at the first position where the token sequences
\* differ, and Equal when no walked position differs, also when one
\* sequence runs out of positions before the other.
C8_EqualLengthWalk ==
    pc = "sort" =>
        \A i, j \in 1..Len(ord) :
            Len(sem_strings[i].raw) = Len(sem_strings[j].raw) =>
                ord[i][j] = FirstDifference(sem_strings[i].parts,
                                            sem_strings[j].parts)

\* C8 witness: "a1a" (Text, Number, Text) and "a00" (Text, Number) have been
\* compared; they differ first at the second position, one token before
\* the shorter token sequence runs out.
C8_Witness ==
    /\ pc = "sort"
    /\ strings = <<(<<97, 49, 97>>), (<<97, 48, 48>>)>>
    /\ Len(sem_strings[1].parts) = 3
    /\ Len(sem_strings[2].parts) = 2
    /\ ord[1][2] = Greater
    /\ ord[2][1] = Less

FirstDiffPos(pa, pb) ==
    LET n == IF Len(pa) < Len(pb) THEN Len(pa) ELSE Len(pb)
        D == {k \in 1..n : pa[k] # pb[k]}
    IN  IF D = {} THEN 0 ELSE CHOOSE m \in D : \A x \in D : m <= x

\* C11 - Cross-variant tie-break: when two parsed strings of equal byte
\* length first differ at a position where one holds a Text token and the
\* other a Number token, the one with the Text token compares Less and the
\* other Greater, whatever the token values are; for strings of unequal
\* byte length the tokens decide nothing, the lengths do.
C11_TextBeforeNumber ==
    pc = "sort" =>
        \A i, j \in 1..Len(ord) :
            LET pa == sem_strings[i].parts
                pb == sem_strings[j].parts
                m == FirstDiffPos(pa, pb)
            IN  /\ (/\ Len(sem_strings[i].raw) = Len(sem_strings[j].raw)
                    /\ m # 0
                    /\ pa[m].tag = "Text"
                    /\ pb[m].tag = "Number")
                       => ord[i][j] = Less /\ ord[j][i] = Greater
                /\ Len(sem_strings[i].raw) # Len(sem_strings[j].raw)
                       => ord[i][j] = IntCmp(Len(sem_strings[i].raw),
                                             Len(sem_strings[j].raw))

\* C11 witness: "a0" (Text, Number) and "0a" (Number, Text), of equal
\* length, have been compared: Text against Number at the first position.
C11_Witness ==
    /\ pc = "sort"
    /\ strings = <<(<<97, 48>>), (<<48, 97>>)>>
    /\ sem_strings[1].parts[1].tag = "Text"
    /\ sem_strings[2].parts[1].tag = "Number"
    /\ ord[1][2] = Less
    /\ ord[2][1] = Greater

\* The variant each maximal run of a byte string must get: Number for a
\* run of ASCII digits, Text for a run of anything else.
RunTags(raw) ==
    LET starts == {k \in 1..Len(raw) :
                      k = 1 \/ IsAsciiDigit(raw[k]) # IsAsciiDigit(raw[k - 1])}
        IsStart(k) == k \in starts
        order == SelectSeq([k \in 1..Len(raw) |-> k], IsStart)
    IN  [r \in 1..Len(order) |->
            IF IsAsciiDigit(raw[order[r]]) THEN "Number" ELSE "Text"]

\* C12 - Strict alternation of runs: the token sequence new builds never has
\* two adjacent tokens of the same variant, and its variants are those of
\* the maximal runs of the string, a run being a Number run exactly when
\* its characters are ASCII digits; the first and the last run may be of
\* either variant.
C12_RunsAlternate ==
    \A i \in 1..Len(sem_strings) :
        LET parts == sem_strings[i].parts
        IN  /\ \A k \in 1..(Len(parts) - 1) : parts[k].tag # parts[k + 1].tag
            /\ [k \in 1..Len(parts) |-> parts[k].tag] = RunTags(sem_strings[i].raw)

\* C12 witness: "1" U+0663 "a" was parsed into a leading Number and one
\* trailing Text run that starts with the non-ASCII numeral.
C12_Witness ==
    /\ pc = "new"
    /\ strings[1] = <<49, 1635, 97>>
    /\ Len(sem_strings) = 1
    /\ Len(sem_strings[1].parts) = 2
    /\ sem_strings[1].parts[1] = Number(<<1>>)
    /\ sem_strings[1].parts[2].tag = "Text"

\* C13 - Empty input: new("") yields no token and the empty raw string, and
\* whenever new succeeds on s the value's raw field is s, unchanged.
C13_RawPreserved ==
    pc # "done" =>
        \A i \in 1..Len(sem_strings) :
            /\ sem_strings[i].raw = Bytes(strings[i])
            /\ strings[i] = <<>> => sem_strings[i].parts = <<>>

\* C13 witness: "" and "a10" have both been parsed.
C13_Witness ==
    /\ pc = "cmp"
    /\ strings = <<(<<>>), (<<97, 49, 48>>)>>
    /\ sem_strings[1] = [raw |-> <<>>, parts |-> <<>>]
    /\ sem_strings[2].raw = <<97, 49, 48>>

\* What collect() gathers: the values returned before the first None.
RECURSIVE Collected(_)
Collected(rets) ==
    IF rets = <<>> \/ Head(rets) = None THEN <<>>
    ELSE <<Head(rets)[1]>> \o Collected(Tail(rets))

\* a[1], b[1], a[2], b[2], ... up to the first turn that finds its vector at
\* its end.
Alternation(a, b) ==
    LET n == IF Len(a) > Len(b) THEN 2 * Len(b) + 1 ELSE 2 * Len(a)
    IN  [k \in 1..n |-> IF k % 2 = 1 THEN a[(k + 1) \div 2] ELSE b[k \div 2]]

\* C14 - Interleave output: a.interleave(b) yields a[0], b[0], a[1], b[1],
\* ... starting with a, and ends the first time the iterator whose turn it
\* is has no element: 2*|b|+1 elements when |a| > |b|, 2*|a| otherwise;
\* surplus elements of b are never yielded.
C14_InterleaveOutput ==
    LET exp == Alternation(il_in.a, il_in.b)
        got == Collected(il_rets)
    IN  /\ Len(got) <= Len(exp)
        /\ \A k \in 1..Len(got) : got[k] = exp[k]
        /\ NoneCount(il_rets) > 0 => got = exp

\* C14 witness: <<1,1,1>> interleaved with <<2,2>> has been collected.
C14_Witness ==
    /\ il_in = [a |-> <<1, 1, 1>>, b |-> <<2, 2>>]
    /\ il_rets = <<(<<1>>), (<<2>>), (<<1>>), (<<2>>), (<<1>>), (<<>>)>>
    /\ il.state = "Finished"

\* C18 - Interleave is fused: once next() has returned None, every later
\* next() returns None and advances neither underlying iterator.
C18_Fused ==
    [][(il_rets # <<>> /\ il_rets[Len(il_rets)] = None)
          => /\ il_rets' = Append(il_rets, None)
             /\ il'.iter_a = il.iter_a
             /\ il'.iter_b = il.iter_b]_ilVars

\* C18 witness: next() has returned None twice in a row while iter_b still
\* holds an element.
C18_Witness ==
    /\ Len(il_rets) >= 2
    /\ il_rets[Len(il_rets)] = None
    /\ il_rets[Len(il_rets) - 1] = None
    /\ il.iter_b # <<>>

\* The char after c and the char before c in the order of chars.
CharAfter(c) == IF c = 55295 THEN 57344 ELSE c + 1
CharBefore(c) == IF c = 57344 THEN 55295 ELSE c - 1

RECURSIVE CharAfterN(_, _)
CharAfterN(c, n) == IF n = 0 THEN c ELSE CharAfterN(CharAfter(c), n - 1)

RECURSIVE CharBeforeN(_, _)
CharBeforeN(c, n) == IF n = 0 THEN c ELSE CharBeforeN(CharBefore(c), n - 1)

IsNextCall(e) == e.op = "next" /\ e.ret # None
IsBackCall(e) == e.op = "next_back" /\ e.ret # None
IsValueCall(e) == e.ret # None

\* C15 - CharIter double-ended iteration over a..=b: next() returns a and
\* then each following char in ascending order, next_back() returns b and
\* then each preceding char in descending order, no char is returned twice,
\* and after every char of the range was returned both return None; no call
\* panics.
C15_CharIterRange ==
    (ci_pc # "idle" /\ ci_in.inclusive) =>
        LET fronts == SelectSeq(ci_log, IsNextCall)
            backs == SelectSeq(ci_log, IsBackCall)
            values == SelectSeq(ci_log, IsValueCall)
        IN  /\ ci_pc # "panicked"
            /\ \A k \in 1..Len(fronts) : fronts[k].ret = Some(CharAfterN(ci_in.a, k - 1))
            /\ \A k \in 1..Len(backs) : backs[k].ret = Some(CharBeforeN(ci_in.b, k - 1))
            /\ \A k, l \in 1..Len(values) : k # l => values[k].ret # values[l].ret
            /\ Len(values) <= RangeSize(ci_in.a, ci_in.b)

\* The items of xs whose key is k, in the order of xs.
RECURSIVE ItemsWithKey(_, _, _)
ItemsWithKey(xs, f, k) ==
    IF xs = <<>> THEN <<>>
    ELSE (IF f[Head(xs)] = k THEN <<Head(xs)>> ELSE <<>>)
         \o ItemsWithKey(Tail(xs), f, k)

RECURSIVE SumOfLens(_, _)
SumOfLens(map, keys) ==
    IF keys = {} THEN 0
    ELSE LET k == CHOOSE k \in keys : TRUE
         IN  Len(map[k]) + SumOfLens(map, keys \ {k})

\* map groups exactly the items xs by f.
IsGrouping(map, xs, f) ==
    /\ DOMAIN map = {f[xs[i]] : i \in 1..Len(xs)}
    /\ \A k \in DOMAIN map : map[k] = ItemsWithKey(xs, f, k) /\ map[k] # <<>>
    /\ SumOfLens(map, DOMAIN map) = Len(xs)

\* C16 - Grouping by key: group_by_key(f) maps each key that occurs to
\* exactly the items with that key in encounter order, no key to an empty
\* list, every item being in exactly one list once; collect_map_vec_by(f)
\* returns the same map.
C16_GroupByKey ==
    /\ IsGrouping(gb.map, SubSeq(gb_in.xs, 1, gb.pos), gb_in.f)
    /\ IsGrouping(cm.map, SubSeq(gb_in.xs, 1, cm.pos), gb_in.f)
    /\ (gb.pos = Len(gb_in.xs) /\ cm.pos = Len(gb_in.xs)) => cm.map = gb.map

\* C16 witness: 1, 2, 1 grouped by parity by both functions.
C16_Witness ==
    /\ gb_in.xs = <<1, 2, 1>>
    /\ gb_in.f = [v \in GbValues |-> v % 2]
    /\ gb.pos = 3
    /\ cm.pos = 3
    /\ DOMAIN gb.map = {0, 1}
    /\ gb.map[1] = <<1, 1>>
    /\ gb.map[0] = <<2>>
    /\ cm.map = gb.map

\* The Duration of exactly m milliseconds.
ExactMillis(m) == [secs |-> m \div 1000, nanos |-> (m % 1000) * 1000000]

\* C17 - from_total_milliseconds(m as f64), for a whole number m >= 0,
\* returns Ok of a Duration of exactly m milliseconds, the value
\* from_milliseconds(m) returns, also when m * 1_000_000 nanoseconds do not
\* fit in 32 bits.
C17_FromTotalMilliseconds ==
    (ts_in.kind = "whole" /\ ts_total.tag # "none") =>
        /\ ts_total.tag = "Ok"
        /\ ts_total.dur = ExactMillis(ts_in.m)
        /\ ts_from.tag = "Ok" => ts_total.dur = ts_from.dur

====
